---- MODULE Spec2Model ----
(***************************************************************************)
(* LEdit: the interaction loop of src/application.rs (render), the command *)
(* dispatcher of src/commands.rs and the selection list of src/util/mod.rs *)
(*                                                                         *)
(* Representation.  A Rust String is a sequence of one-character strings   *)
(* (a fixed text may be kept as one chunk), so split(' ') and push/pop act *)
(* on characters.  Option<T> is a sequence of length 0 (None) or 1 (Some). *)
(***************************************************************************)
EXTENDS Integers, Sequences, FiniteSets, TLC

None == <<>>
Some(x) == <<x>>
IsSome(o) == Len(o) = 1
Unwrap(o) == o[1]

(***************************************************************************)
(* Strings                                                                 *)
(***************************************************************************)
quit_name == <<"q", "u", "i", "t">>
open_name == <<"o", "p", "e", "n">>
help_name == <<"h", "e", "l", "p">>

quit_description == <<"Quits the application without saving.\nUsage: quit">>
open_description == <<"Set the current workspace to the given one.\nUsage: open <directory>">>
help_description == <<"Get help for the given command\nUsage: help <command name>">>

\* str::split(' '): one piece more than there are separators, empty pieces kept
RECURSIVE split(_, _)
split(s, sep) ==
    IF \A i \in 1..Len(s) : s[i] # sep
    THEN <<s>>
    ELSE LET i == CHOOSE j \in 1..Len(s) :
                     s[j] = sep /\ \A k \in 1..(j - 1) : s[k] # sep
         IN  <<SubSeq(s, 1, i - 1)>> \o split(SubSeq(s, i + 1, Len(s)), sep)

\* Vec::remove(0)
remove0(v) == SubSeq(v, 2, Len(v))

(***************************************************************************)
(* Status and application events (src/util/mod.rs)                         *)
(***************************************************************************)
Status(text, level) == [text |-> text, level |-> level]
Status_default == Status(<<>>, "INFO")

Close_event == [type |-> "Close", a |-> <<>>, b |-> <<>>, level |-> "INFO"]
ShowDialog(title, content) ==
    [type |-> "ShowDialog", a |-> title, b |-> content, level |-> "INFO"]
SetStatus(s) == [type |-> "SetStatus", a |-> s.text, b |-> <<>>, level |-> s.level]
SetWorkspace(w) == [type |-> "SetWorkspace", a |-> w, b |-> <<>>, level |-> "INFO"]

(***************************************************************************)
(* Commands (src/commands.rs)                                              *)
(***************************************************************************)
NoHelp == [n \in {} |-> <<>>]

QuitCommand ==
    [kind |-> "quit", name |-> quit_name, aliases |-> << <<"q">> >>,
     description |-> quit_description, commands |-> NoHelp]

OpenCommand ==
    [kind |-> "open", name |-> open_name, aliases |-> << <<"o">> >>,
     description |-> open_description, commands |-> NoHelp]

\* a help table without the entry for help itself
HelpCommand_new_registered_only(commands) ==
    LET names == {commands[i].name : i \in 1..Len(commands)}
    IN  [kind |-> "help", name |-> help_name, aliases |-> << <<"h">> >>,
         description |-> help_description,
         commands |-> [n \in names |->
                          (CHOOSE c \in {commands[i] : i \in 1..Len(commands)} :
                               c.name = n).description]]

\* HelpCommand::new: name -> description of the commands registered so far
\* (a later insert of the same name replaces the earlier one), plus "help"
HelpCommand_new(commands) ==
    LET names == {commands[i].name : i \in 1..Len(commands)} \cup {help_name}
        last(n) == CHOOSE i \in 1..Len(commands) :
                       /\ commands[i].name = n
                       /\ \A j \in (i + 1)..Len(commands) : commands[j].name # n
    IN  [kind |-> "help", name |-> help_name, aliases |-> << <<"h">> >>,
         description |-> help_description,
         commands |-> [n \in names |->
                          IF n = help_name THEN help_description
                          ELSE commands[last(n)].description]]

\* CommandParser::add_command
add_command(commands, command) == Append(commands, command)

\* App::setup_commands
setup_commands ==
    LET c1 == add_command(<<>>, QuitCommand)
        c2 == add_command(c1, OpenCommand)
    IN  add_command(c2, HelpCommand_new(c2))

\* the test of one registered command against the first token: its name, then
\* each of its aliases
cmd_matches(cmd, token) ==
    \/ token = cmd.name
    \/ \E j \in 1..Len(cmd.aliases) : token = cmd.aliases[j]

NotFound == [ok |-> FALSE, cmd |-> 0, err |-> "NotFound"]
Found(i) == [ok |-> TRUE, cmd |-> i, err |-> "None"]

\* an alternative that returns the match registered last
parse_last_match(commands, buffer) ==
    LET splitted == split(buffer, " ")
        hits == {i \in 1..Len(commands) : cmd_matches(commands[i], splitted[1])}
    IN  IF hits = {} THEN NotFound
        ELSE Found(CHOOSE i \in hits : \A j \in hits : j <= i)

\* CommandParser::parse: the registry is walked in order and the first command
\* whose name or alias equals splitted[0] is returned
parse(commands, buffer) ==
    LET splitted == split(buffer, " ")
        hits == {i \in 1..Len(commands) : cmd_matches(commands[i], splitted[1])}
    IN  IF hits = {} THEN NotFound
        ELSE Found(CHOOSE i \in hits : \A j \in hits : i <= j)

ExecOk(sent) == [result |-> "Ok", reason |-> None, sent |-> sent]
InvalidSyntax == [result |-> "InvalidSyntax", reason |-> None, sent |-> <<>>]
ExecutionError(reason) == [result |-> "ExecutionError", reason |-> reason, sent |-> <<>>]

\* block_on(tx.send(ev)): fails when the channel is closed, else queues ev
send(closed, ev, reason) ==
    IF closed THEN ExecutionError(Some(reason)) ELSE ExecOk(<<ev>>)

\* QuitCommand::execute
QuitCommand_execute(closed, args) ==
    send(closed, Close_event,
         <<"Error while sending the quit event to the application">>)

\* OpenCommand::execute
OpenCommand_execute(closed, args) ==
    IF Len(args) < 1 THEN InvalidSyntax
    ELSE send(closed, SetWorkspace(args[1]),
              <<"Error while sending workspace event to the application">>)

\* a help that fails on a name it does not know
HelpCommand_execute_unknown_fails(cmd, closed, args) ==
    IF Len(args) < 1 THEN InvalidSyntax
    ELSE IF args[1] \in DOMAIN cmd.commands
         THEN send(closed,
                   ShowDialog(<<"Help for ">> \o args[1] \o <<" command">>,
                              cmd.commands[args[1]]),
                   <<"Error while sending the dialog event to the application">>)
         ELSE ExecutionError(Some(args[1] \o <<" command doesn't exist">>))

\* a help that publishes a status after the dialog
HelpCommand_execute_two_events(cmd, closed, args) ==
    IF Len(args) < 1 THEN InvalidSyntax
    ELSE IF args[1] \in DOMAIN cmd.commands
         THEN IF closed
              THEN ExecutionError(Some(
                       <<"Error while sending the dialog event to the application">>))
              ELSE ExecOk(<<ShowDialog(<<"Help for ">> \o args[1] \o <<" command">>,
                                       cmd.commands[args[1]]),
                            SetStatus(Status(<<"Help shown">>, "INFO"))>>)
         ELSE send(closed,
                   SetStatus(Status(args[1] \o <<" command doesn't exist">>, "ERROR")),
                   <<"Error while sending the status event to the application">>)

\* HelpCommand::execute
HelpCommand_execute(cmd, closed, args) ==
    IF Len(args) < 1 THEN InvalidSyntax
    ELSE IF args[1] \in DOMAIN cmd.commands
         THEN send(closed,
                   ShowDialog(<<"Help for ">> \o args[1] \o <<" command">>,
                              cmd.commands[args[1]]),
                   <<"Error while sending the dialog event to the application">>)
         ELSE send(closed,
                   SetStatus(Status(args[1] \o <<" command doesn't exist">>, "ERROR")),
                   <<"Error while sending the status event to the application">>)

\* Command::execute, dispatched on the command object
execute(cmd, closed, args) ==
    CASE cmd.kind = "quit" -> QuitCommand_execute(closed, args)
      [] cmd.kind = "open" -> OpenCommand_execute(closed, args)
      [] cmd.kind = "help" -> HelpCommand_execute(cmd, closed, args)

(***************************************************************************)
(* The file system the explorer reads.  Paths are relative to the current  *)
(* directory: "a" and "b" are readable directories, "z" is a directory     *)
(* whose listing is refused, every other name does not exist.  Entries are *)
(* given in the order read_dir yields them.                                *)
(*     a/m  file        a/d  directory        a/c  file                    *)
(*     a/r  directory whose listing is refused                             *)
(*     a/d/k  file      a/d/s  empty directory                             *)
(*     a/d/u  directory whose listing is refused                           *)
(*     b/d  directory   b/d/k  file                                        *)
(***************************************************************************)
Missing == [exists |-> FALSE, is_dir |-> FALSE, readable |-> FALSE, entries |-> <<>>]
File == [exists |-> TRUE, is_dir |-> FALSE, readable |-> TRUE, entries |-> <<>>]
Dir(entries) == [exists |-> TRUE, is_dir |-> TRUE, readable |-> TRUE, entries |-> entries]
Refused == [exists |-> TRUE, is_dir |-> TRUE, readable |-> FALSE, entries |-> <<>>]

path_a == <<"a">>
path_b == <<"b">>
path_z == <<"z">>
path_n == <<"n">>
join(dir, name) == dir \o <<"/">> \o name

fs(path) ==
    CASE path = path_a -> Dir(<< <<"m">>, <<"r">>, <<"d">>, <<"c">> >>)
      [] path = join(path_a, <<"r">>) -> Refused
      [] path = join(path_a, <<"m">>) -> File
      [] path = join(path_a, <<"c">>) -> File
      [] path = join(path_a, <<"d">>) -> Dir(<< <<"k">>, <<"s">>, <<"u">> >>)
      [] path = join(join(path_a, <<"d">>), <<"k">>) -> File
      [] path = join(join(path_a, <<"d">>), <<"s">>) -> Dir(<<>>)
      [] path = join(join(path_a, <<"d">>), <<"u">>) -> Refused
      [] path = path_b -> Dir(<< <<"d">> >>)
      [] path = join(path_b, <<"d">>) -> Dir(<< <<"k">> >>)
      [] path = join(join(path_b, <<"d">>), <<"k">>) -> File
      [] path = path_z -> Refused
      [] OTHER -> Missing

\* Path::file_name: the text after the last '/'
file_name(path) == LET parts == split(path, "/") IN parts[Len(parts)]

(***************************************************************************)
(* Node, Nodes (src/application.rs)                                        *)
(*                                                                         *)
(* Uuid::new_v4 yields an identifier no earlier node has.  Identifiers are *)
(* only ever compared for equality, so one is kept as <<age, value>>: age  *)
(* "live" for the nodes of the build that made the current tree, "stale"   *)
(* for those of every earlier build.                                       *)
(***************************************************************************)
Node_new(display_name, value, children, expanded, layer, node_type) ==
    [display_name |-> display_name, value |-> value, children |-> children,
     expanded |-> expanded, uuid |-> <<"live", value>>, layer |-> layer,
     node_type |-> node_type]

\* the order of char on the characters that occur in file names
CharOrder == <<".", "/", "a", "b", "c", "d", "k", "m", "n", "s", "u", "z">>
rank(ch) == IF \E i \in 1..Len(CharOrder) : CharOrder[i] = ch
            THEN CHOOSE i \in 1..Len(CharOrder) : CharOrder[i] = ch
            ELSE 0

\* String::cmp: lexicographic
RECURSIVE str_cmp(_, _)
str_cmp(x, y) ==
    IF x = <<>> /\ y = <<>> THEN "Equal"
    ELSE IF x = <<>> THEN "Less"
    ELSE IF y = <<>> THEN "Greater"
    ELSE IF rank(x[1]) < rank(y[1]) THEN "Less"
    ELSE IF rank(x[1]) > rank(y[1]) THEN "Greater"
    ELSE str_cmp(Tail(x), Tail(y))

\* Node::cmp
cmp(self, other) ==
    IF self.node_type = "Info"
    THEN IF other.node_type = "Info"
         THEN str_cmp(self.display_name, other.display_name)
         ELSE "Greater"
    ELSE IF self.node_type = "Directory"
    THEN IF other.node_type = "Directory"
         THEN str_cmp(self.display_name, other.display_name)
         ELSE IF other.node_type = "Info" THEN "Less"
         ELSE "Greater"
    ELSE IF other.node_type = "Directory" THEN "Less"
         ELSE IF other.node_type = "Info" THEN "Less"
         ELSE str_cmp(self.display_name, other.display_name)

\* the comparator load_explorer hands to sort_by: |a, b| b.cmp(a)
sort_cmp(a, b) == cmp(b, a)

\* slice::sort_by, a stable sort: insertion after the last element that does
\* not compare Greater than the new one
RECURSIVE insert_sorted(_, _)
insert_sorted(sorted, x) ==
    IF sorted = <<>> THEN <<x>>
    ELSE LET l == sorted[Len(sorted)]
         IN  IF sort_cmp(l, x) = "Greater"
             THEN Append(insert_sorted(SubSeq(sorted, 1, Len(sorted) - 1), x), l)
             ELSE Append(sorted, x)

RECURSIVE sort_by(_)
sort_by(v) ==
    IF v = <<>> THEN <<>>
    ELSE insert_sorted(sort_by(SubSeq(v, 1, Len(v) - 1)), v[Len(v)])

Ok(v) == [ok |-> TRUE, v |-> v]
Err == [ok |-> FALSE, v |-> <<>>]

\* a collection that ends at the first failed entry
RECURSIVE collect_until_err(_)
collect_until_err(rs) ==
    IF rs = <<>> THEN <<>>
    ELSE IF rs[1].ok THEN <<rs[1].v>> \o collect_until_err(Tail(rs))
    ELSE <<>>

\* keeps the Ok results of a sequence of Results, in order
RECURSIVE collect_ok(_)
collect_ok(rs) ==
    IF rs = <<>> THEN <<>>
    ELSE IF rs[1].ok THEN <<rs[1].v>> \o collect_ok(Tail(rs))
    ELSE collect_ok(Tail(rs))

\* load_explorer::expand_path
RECURSIVE expand_path(_, _)
expand_path(dir, level) ==
    LET node == Node_new(file_name(dir), dir, None, None, level, "Directory")
        e == fs(dir)
    IN  IF e.exists
        THEN IF e.is_dir
             THEN IF ~e.readable THEN Err
                  ELSE Ok([node EXCEPT
                         !.children = Some(collect_ok(
                             [i \in 1..Len(e.entries) |->
                                 expand_path(join(dir, e.entries[i]), level + 1)])),
                         !.expanded = Some(FALSE),
                         !.node_type = "Directory"])
             ELSE Ok([node EXCEPT !.node_type = "File"])
        ELSE Ok(node)

\* a placeholder made like a collapsed directory
Empty_workspace_collapsed ==
    Node_new(<<"Empty workspace">>, <<>>, Some(<<>>), Some(FALSE), 0, "Info")

Empty_workspace ==
    Node_new(<<"Empty workspace">>, <<>>, None, None, 0, "Info")

\* App::load_explorer: Ok with the new file_list.nodes, or Err (the listing of
\* the workspace root failed and file_list.nodes was not assigned)
load_explorer(working_path) ==
    IF IsSome(working_path)
    THEN LET path == Unwrap(working_path)
             e == fs(path)
         IN  IF e.exists /\ e.is_dir
             THEN IF ~e.readable THEN Err
                  ELSE Ok(sort_by(collect_ok(
                          [i \in 1..Len(e.entries) |->
                              expand_path(join(path, e.entries[i]), 0)])))
             ELSE Ok(sort_by(<<>>))
    ELSE Ok(sort_by(<<Empty_workspace>>))

\* display_name of a row: the glyph, then three spaces per layer in front
RECURSIVE indent(_, _)
indent(n, text) == IF n = 0 THEN text ELSE indent(n - 1, <<"   ">> \o text)

row_name(node) ==
    IF node.expanded = Some(TRUE) THEN indent(node.layer, <<"▼ ">> \o node.display_name)
    ELSE IF node.expanded = Some(FALSE)
         THEN indent(node.layer, <<"▶ ">> \o node.display_name)
         ELSE indent(node.layer, node.display_name)

\* an expand that descends into collapsed directories too
RECURSIVE expand_collapsed_too(_)
expand_collapsed_too(node) ==
    LET row == [display_name |-> row_name(node), value |-> row_name(node),
                children |-> None, expanded |-> None, uuid |-> node.uuid,
                layer |-> 0, node_type |-> "File"]
        RECURSIVE rows_of(_)
        rows_of(children) ==
            IF children = <<>> THEN <<>>
            ELSE expand_collapsed_too(children[1]) \o rows_of(Tail(children))
    IN  IF IsSome(node.children)
        THEN <<row>> \o rows_of(Unwrap(node.children))
        ELSE <<row>>

\* expand: the rows pushed to app_list.items for one node, in order
RECURSIVE expand(_)
expand(node) ==
    LET row == [display_name |-> row_name(node), value |-> row_name(node),
                children |-> None, expanded |-> None, uuid |-> node.uuid,
                layer |-> 0, node_type |-> "File"]
        RECURSIVE rows_of(_)
        rows_of(children) ==
            IF children = <<>> THEN <<>>
            ELSE expand(children[1]) \o rows_of(Tail(children))
    IN  IF node.expanded = Some(TRUE) /\ IsSome(node.children)
        THEN <<row>> \o rows_of(Unwrap(node.children))
        ELSE <<row>>

\* render, lines 445-449: app.items.items rebuilt from file_list.nodes
RECURSIVE flatten(_)
flatten(nodes) ==
    IF nodes = <<>> THEN <<>> ELSE expand(nodes[1]) \o flatten(Tail(nodes))

\* Nodes::from_uuid followed by the caller's flip of node.expanded: the
\* first node found depth-first with that uuid has Some(exp) turned into
\* Some(!exp); found tells whether from_uuid returned Some
RECURSIVE toggle_check(_, _)
RECURSIVE toggle_seq(_, _)
\* an activation that expands and never collapses
toggle_check_expand_only(uuid, node) ==
    IF node.uuid = uuid
    THEN [found |-> TRUE,
          node |-> IF IsSome(node.expanded)
                   THEN [node EXCEPT !.expanded = Some(TRUE)]
                   ELSE node]
    ELSE IF IsSome(node.children)
         THEN LET r == toggle_seq(uuid, Unwrap(node.children))
              IN  [found |-> r.found,
                   node |-> [node EXCEPT !.children = Some(r.nodes)]]
         ELSE [found |-> FALSE, node |-> node]

toggle_check(uuid, node) ==
    IF node.uuid = uuid
    THEN [found |-> TRUE,
          node |-> IF IsSome(node.expanded)
                   THEN [node EXCEPT !.expanded = Some(~Unwrap(node.expanded))]
                   ELSE node]
    ELSE IF IsSome(node.children)
         THEN LET r == toggle_seq(uuid, Unwrap(node.children))
              IN  [found |-> r.found,
                   node |-> [node EXCEPT !.children = Some(r.nodes)]]
         ELSE [found |-> FALSE, node |-> node]

toggle_seq(uuid, nodes) ==
    IF nodes = <<>> THEN [found |-> FALSE, nodes |-> <<>>]
    ELSE LET h == toggle_check(uuid, nodes[1])
         IN  IF h.found
             THEN [found |-> TRUE, nodes |-> <<h.node>> \o Tail(nodes)]
             ELSE LET t == toggle_seq(uuid, Tail(nodes))
                  IN  [found |-> t.found, nodes |-> <<nodes[1]>> \o t.nodes]

\* an activation that falls back on the first root when the id is not found
from_uuid_toggle_or_first(nodes, uuid) ==
    IF toggle_seq(uuid, nodes).found \/ nodes = <<>>
    THEN toggle_seq(uuid, nodes).nodes
    ELSE toggle_seq(nodes[1].uuid, nodes).nodes

from_uuid_toggle(nodes, uuid) == toggle_seq(uuid, nodes).nodes

\* the rows of an earlier build: their uuids match no node built afterwards
age(rows) == [i \in 1..Len(rows) |->
                 [rows[i] EXCEPT !.uuid = <<"stale", rows[i].uuid[2]>>]]

(***************************************************************************)
(* StatefulList (src/util/mod.rs).  usize arithmetic: len - 1 on a length  *)
(* of 0 either panics (overflow checks on) or wraps to usize::MAX.         *)
(***************************************************************************)
\* stands for usize::MAX: the largest integer TLC holds; it is only compared
\* with indices, all of which are far below it
usize_MAX == 2147483647

Selected(sel) == [panic |-> FALSE, selected |-> sel]
Panic == [panic |-> TRUE, selected |-> None]

\* the outcomes of self.items.len() - 1
len_minus_1(len) == IF len = 0 THEN {Panic, Selected(Some(usize_MAX))}
                    ELSE {Selected(Some(len - 1))}

\* a next that stays on the last item
next_stops_at_last(selected, len) ==
    IF IsSome(selected)
    THEN {IF l.panic THEN Panic
          ELSE IF Unwrap(selected) >= Unwrap(l.selected) THEN Selected(selected)
          ELSE Selected(Some(Unwrap(selected) + 1)) : l \in len_minus_1(len)}
    ELSE {Selected(Some(0))}

\* StatefulList::next: the set of outcomes
next(selected, len) ==
    IF IsSome(selected)
    THEN {IF l.panic THEN Panic
          ELSE IF Unwrap(selected) >= Unwrap(l.selected) THEN Selected(Some(0))
          ELSE Selected(Some(Unwrap(selected) + 1)) : l \in len_minus_1(len)}
    ELSE {Selected(Some(0))}

\* StatefulList::previous: the set of outcomes
previous(selected, len) ==
    IF IsSome(selected)
    THEN IF Unwrap(selected) = 0 THEN len_minus_1(len)
         ELSE {Selected(Some(Unwrap(selected) - 1))}
    ELSE {Selected(Some(0))}

\* StatefulList::unselect
unselect == None

(***************************************************************************)
(* The application state (struct App) and the position in render's loop    *)
(***************************************************************************)
VARIABLES
    pc,              \* "draw" (loop head), "input", "drain", "done", "panicked"
    mode,            \* app.mode
    command_buffer,  \* app.command_buffer
    commands,        \* app.command_parser.commands
    status,          \* app.status
    receiver,        \* the events queued in the channel of app.receiver
    closed,          \* whether that channel is closed
    show_dialog,     \* app.show_dialog
    dialog_title,    \* app.dialog_title
    dialog_content,  \* app.dialog_content
    working_path,    \* app.working_path
    file_list,       \* app.file_list.nodes
    items_items,     \* app.items.items
    items_state,     \* app.items.state.selected()
    file_view,       \* app.file_view
    should_close,    \* app.should_close
    input,           \* the event just handled and what it met
    calls,           \* the dispatcher calls of the key handler just run
    drained,         \* the event try_recv just returned
    opened_from,     \* the mode in which the command of the last dialog ran
    script,          \* the command lines the user types, a key at a time
    before           \* the tree the last key changed by an activation

vars == <<pc, mode, command_buffer, commands, status, receiver, closed,
          show_dialog, dialog_title, dialog_content, working_path, file_list,
          items_items, items_state, file_view, should_close, input, calls,
          drained, opened_from, script, before>>

app_vars == <<mode, command_buffer, commands, status, receiver, closed,
              show_dialog, dialog_title, dialog_content, working_path,
              file_list, items_items, items_state, file_view, should_close>>

(***************************************************************************)
(* The environment: the keys pressed and the lines typed                   *)
(***************************************************************************)
\* the highest index the selection is let grow to on an empty list
MaxSel == 5

Enter == "\n"
Space == " "

line(name, arg) == name \o <<Space>> \o arg

\* the lines submitted where the commands and the modes are followed
CommandLines ==
    { <<"q">>, quit_name, <<"x">>,
      open_name, line(open_name, path_b), line(open_name, path_z),
      line(line(open_name, path_b), <<"c">>),
      line(<<"h">>, <<"o">>), line(<<"h">>, open_name) }

\* the lines submitted where the explorer is followed
TreeLines ==
    { <<"q">>, line(<<"h">>, <<"o">>), line(<<"h">>, open_name),
      line(<<"o">>, path_a), line(<<"o">>, path_z), line(<<"o">>, path_n) }

Prefixes(lines) == UNION {{SubSeq(l, 1, n) : n \in 0..Len(l)} : l \in lines}

Chars(lines) == UNION {{l[i] : i \in 1..Len(l)} : l \in lines}

NormalOtherKeys == {"x", "Backspace"}
InsertOtherKeys == {"q", Enter}
CommandOtherKeys == {"Down"}

Met(key) == Some([key |-> key, mode |-> mode, dialog |-> show_dialog,
                  buffer |-> command_buffer])

(***************************************************************************)
(* main and the start of render: the state at the first loop head          *)
(***************************************************************************)
AppInit(lines, start_paths) ==
    /\ script = lines
    /\ working_path \in start_paths
    /\ mode = "NormalMode"
    /\ command_buffer = <<>>
    /\ status = Status_default
    /\ receiver = <<>>
    /\ closed = FALSE
    /\ show_dialog = FALSE
    /\ dialog_title = <<>>
    /\ dialog_content = <<>>
    /\ file_list = load_explorer(working_path).v
    /\ items_items = <<>>
    /\ items_state = None
    /\ file_view = TRUE
    /\ should_close = FALSE
    /\ input = None
    /\ calls = <<>>
    /\ drained = None
    /\ opened_from = None
    /\ before = None

InitWith(lines, start_paths) ==
    /\ AppInit(lines, start_paths)
    /\ pc = "draw"
    /\ commands = setup_commands

Init == InitWith(CommandLines, {None})

InitTree == InitWith(TreeLines, {None, Some(path_a)})

(***************************************************************************)
(* render: the loop head and the redraw                                    *)
(***************************************************************************)
\* lines 331-333: the loop ends once should_close is set
Exit ==
    /\ pc = "draw"
    /\ should_close
    /\ pc' = "done"
    /\ input' = None /\ calls' = <<>> /\ drained' = None
    /\ UNCHANGED <<app_vars, opened_from, script, before>>

\* a redraw that derives the rows only while there are none
Draw_flatten_once ==
    /\ pc = "draw"
    /\ ~should_close
    /\ pc' = "input"
    /\ items_items' = IF file_view /\ items_items = <<>>
                      THEN flatten(file_list) ELSE items_items
    /\ input' = None /\ calls' = <<>> /\ drained' = None
    /\ UNCHANGED <<mode, command_buffer, commands, status, receiver, closed,
                   show_dialog, dialog_title, dialog_content, working_path,
                   file_list, items_state, file_view, should_close, opened_from,
                   script, before>>

\* lines 334-539: the frame is drawn; with the explorer open, app.items.items
\* is rebuilt from the tree
Draw ==
    /\ pc = "draw"
    /\ ~should_close
    /\ pc' = "input"
    /\ items_items' = IF file_view THEN flatten(file_list) ELSE items_items
    /\ input' = None /\ calls' = <<>> /\ drained' = None
    /\ UNCHANGED <<mode, command_buffer, commands, status, receiver, closed,
                   show_dialog, dialog_title, dialog_content, working_path,
                   file_list, items_state, file_view, should_close, opened_from,
                   script, before>>

(***************************************************************************)
(* render: Event::Tick and Event::Input in NormalMode                      *)
(***************************************************************************)
Handled(key) ==
    /\ pc = "input"
    /\ pc' = "drain"
    /\ input' = Met(key)
    /\ drained' = None
    /\ UNCHANGED <<commands, closed, opened_from, script>>
    /\ before' = IF key = "Tick" THEN before ELSE None

Tick ==
    /\ Handled("Tick")
    /\ calls' = <<>>
    /\ UNCHANGED <<mode, command_buffer, status, receiver, show_dialog,
                   dialog_title, dialog_content, working_path, file_list,
                   items_items, items_state, file_view, should_close>>

\* a close that leaves the flag unset
close_unset == FALSE

\* App::close: the value should_close is given
close == TRUE

NormalEnter ==
    /\ mode = "NormalMode"
    /\ Handled(Enter)
    /\ calls' = <<>>
    /\ show_dialog' = IF show_dialog THEN FALSE ELSE show_dialog
    /\ UNCHANGED <<mode, command_buffer, status, receiver, dialog_title,
                   dialog_content, working_path, file_list, items_items,
                   items_state, file_view, should_close>>

\* a 'q' that does not look at the dialog flag
NormalQ_unguarded ==
    /\ mode = "NormalMode"
    /\ Handled("q")
    /\ calls' = <<>>
    /\ should_close' = close
    /\ UNCHANGED <<mode, command_buffer, status, receiver, show_dialog,
                   dialog_title, dialog_content, working_path, file_list,
                   items_items, items_state, file_view>>

NormalQ ==
    /\ mode = "NormalMode"
    /\ Handled("q")
    /\ calls' = <<>>
    /\ should_close' = IF ~show_dialog THEN close ELSE should_close
    /\ UNCHANGED <<mode, command_buffer, status, receiver, show_dialog,
                   dialog_title, dialog_content, working_path, file_list,
                   items_items, items_state, file_view>>

NormalF ==
    /\ mode = "NormalMode"
    /\ Handled("f")
    /\ calls' = <<>>
    /\ file_view' = IF ~show_dialog THEN ~file_view ELSE file_view
    /\ UNCHANGED <<mode, command_buffer, status, receiver, show_dialog,
                   dialog_title, dialog_content, working_path, file_list,
                   items_items, items_state, should_close>>

\* a 'c' that enters Command mode with the dialog open too
NormalC_unguarded ==
    /\ mode = "NormalMode"
    /\ Handled("c")
    /\ calls' = <<>>
    /\ mode' = "CommandMode"
    /\ UNCHANGED <<command_buffer, status, receiver, show_dialog,
                   dialog_title, dialog_content, working_path, file_list,
                   items_items, items_state, file_view, should_close>>

NormalC ==
    /\ mode = "NormalMode"
    /\ Handled("c")
    /\ calls' = <<>>
    /\ mode' = IF ~show_dialog THEN "CommandMode" ELSE mode
    /\ UNCHANGED <<command_buffer, status, receiver, show_dialog,
                   dialog_title, dialog_content, working_path, file_list,
                   items_items, items_state, file_view, should_close>>

NormalI ==
    /\ mode = "NormalMode"
    /\ Handled("i")
    /\ calls' = <<>>
    /\ mode' = IF ~show_dialog THEN "InsertMode" ELSE mode
    /\ UNCHANGED <<command_buffer, status, receiver, show_dialog,
                   dialog_title, dialog_content, working_path, file_list,
                   items_items, items_state, file_view, should_close>>

NormalEsc ==
    /\ mode = "NormalMode"
    /\ Handled("Esc")
    /\ calls' = <<>>
    /\ items_state' = IF ~show_dialog /\ file_view THEN unselect ELSE items_state
    /\ UNCHANGED <<mode, command_buffer, status, receiver, show_dialog,
                   dialog_title, dialog_content, working_path, file_list,
                   items_items, file_view, should_close>>

\* a selection within what the model follows
Followed(sel) == IsSome(sel) => Unwrap(sel) <= MaxSel \/ Unwrap(sel) = usize_MAX

\* Key::Down: app.items.next()
NormalDown ==
    /\ mode = "NormalMode"
    /\ pc = "input"
    /\ input' = Met("Down")
    /\ drained' = None
    /\ calls' = <<>>
    /\ \E o \in IF ~show_dialog /\ file_view
                THEN next(items_state, Len(items_items))
                ELSE {Selected(items_state)} :
          /\ Followed(o.selected)
          /\ pc' = IF o.panic THEN "panicked" ELSE "drain"
          /\ items_state' = IF o.panic THEN items_state ELSE o.selected
    /\ UNCHANGED <<mode, command_buffer, commands, status, receiver, closed,
                   show_dialog, dialog_title, dialog_content, working_path,
                   file_list, items_items, file_view, should_close,
                   opened_from, script>>
    /\ before' = None

\* Key::Up: app.items.previous()
NormalUp ==
    /\ mode = "NormalMode"
    /\ pc = "input"
    /\ input' = Met("Up")
    /\ drained' = None
    /\ calls' = <<>>
    /\ \E o \in IF ~show_dialog /\ file_view
                THEN previous(items_state, Len(items_items))
                ELSE {Selected(items_state)} :
          /\ Followed(o.selected)
          /\ pc' = IF o.panic THEN "panicked" ELSE "drain"
          /\ items_state' = IF o.panic THEN items_state ELSE o.selected
    /\ UNCHANGED <<mode, command_buffer, commands, status, receiver, closed,
                   show_dialog, dialog_title, dialog_content, working_path,
                   file_list, items_items, file_view, should_close,
                   opened_from, script>>
    /\ before' = None

\* an activate key that does not look at the dialog flag
NormalSpace_unguarded ==
    /\ mode = "NormalMode"
    /\ pc = "input"
    /\ input' = Met(Space)
    /\ drained' = None
    /\ calls' = <<>>
    /\ IF IsSome(items_state)
       THEN IF Unwrap(items_state) >= Len(items_items)
            THEN pc' = "panicked" /\ file_list' = file_list
            ELSE /\ pc' = "drain"
                 /\ file_list' = from_uuid_toggle(
                        file_list, items_items[Unwrap(items_state) + 1].uuid)
       ELSE pc' = "drain" /\ file_list' = file_list
    /\ UNCHANGED <<mode, command_buffer, commands, status, receiver, closed,
                   show_dialog, dialog_title, dialog_content, working_path,
                   items_items, items_state, file_view, should_close,
                   opened_from, script>>
    /\ before' = IF file_list' # file_list THEN Some(file_list) ELSE None

\* Key::Char(' '): the node of the selected row is looked up by uuid and its
\* expanded flag flipped; index_mut panics on an index past the rows
NormalSpace ==
    /\ mode = "NormalMode"
    /\ pc = "input"
    /\ input' = Met(Space)
    /\ drained' = None
    /\ calls' = <<>>
    /\ IF ~show_dialog /\ IsSome(items_state)
       THEN IF Unwrap(items_state) >= Len(items_items)
            THEN pc' = "panicked" /\ file_list' = file_list
            ELSE /\ pc' = "drain"
                 /\ file_list' = from_uuid_toggle(
                        file_list, items_items[Unwrap(items_state) + 1].uuid)
       ELSE pc' = "drain" /\ file_list' = file_list
    /\ UNCHANGED <<mode, command_buffer, commands, status, receiver, closed,
                   show_dialog, dialog_title, dialog_content, working_path,
                   items_items, items_state, file_view, should_close,
                   opened_from, script>>
    /\ before' = IF file_list' # file_list THEN Some(file_list) ELSE None

NormalOther ==
    /\ mode = "NormalMode"
    /\ \E key \in NormalOtherKeys : Handled(key)
    /\ calls' = <<>>
    /\ UNCHANGED <<mode, command_buffer, status, receiver, show_dialog,
                   dialog_title, dialog_content, working_path, file_list,
                   items_items, items_state, file_view, should_close>>

(***************************************************************************)
(* render: Event::Input in InsertMode                                      *)
(***************************************************************************)
InsertEsc ==
    /\ mode = "InsertMode"
    /\ Handled("Esc")
    /\ calls' = <<>>
    /\ mode' = "NormalMode"
    /\ UNCHANGED <<command_buffer, status, receiver, show_dialog,
                   dialog_title, dialog_content, working_path, file_list,
                   items_items, items_state, file_view, should_close>>

InsertOther ==
    /\ mode = "InsertMode"
    /\ \E key \in InsertOtherKeys : Handled(key)
    /\ calls' = <<>>
    /\ UNCHANGED <<mode, command_buffer, status, receiver, show_dialog,
                   dialog_title, dialog_content, working_path, file_list,
                   items_items, items_state, file_view, should_close>>

(***************************************************************************)
(* render: Event::Input in CommandMode                                     *)
(***************************************************************************)
ParseCall(p) ==
    [fn |-> "parse", cmd |-> p.cmd, args |-> <<>>,
     result |-> IF p.ok THEN "Ok" ELSE p.err, sent |-> <<>>]
ExecuteCall(cmd, args, r) ==
    [fn |-> "execute", cmd |-> cmd, args |-> args, result |-> r.result,
     sent |-> r.sent]

\* a submit whose NotFound arm is missing
submit_silent_not_found(cmds, buffer, chan_closed, old_status) ==
    LET p == parse(cmds, buffer)
    IN  IF p.ok
        THEN LET args == remove0(split(buffer, Space))
                 cmd == cmds[p.cmd]
                 r == execute(cmd, chan_closed, args)
             IN  [status |-> IF r.result = "InvalidSyntax"
                             THEN Status(<<"Invalid syntax! Type 'help ">>
                                         \o cmd.name \o <<"'">>, "ERROR")
                             ELSE old_status,
                  sent |-> r.sent,
                  calls |-> <<ParseCall(p), ExecuteCall(p.cmd, args, r)>>]
        ELSE [status |-> old_status, sent |-> <<>>, calls |-> <<ParseCall(p)>>]

\* lines 630-691: the buffer is parsed and the command found is executed;
\* yields the status afterwards, the events sent and the calls made (the
\* backquotes of the status text are written as quotes)
submit(cmds, buffer, chan_closed, old_status) ==
    LET p == parse(cmds, buffer)
    IN  IF p.ok
        THEN LET args == remove0(split(buffer, Space))
                 cmd == cmds[p.cmd]
                 r == execute(cmd, chan_closed, args)
             IN  [status |-> IF r.result = "InvalidSyntax"
                             THEN Status(<<"Invalid syntax! Type 'help ">>
                                         \o cmd.name \o <<"'">>, "ERROR")
                             ELSE old_status,
                  sent |-> r.sent,
                  calls |-> <<ParseCall(p), ExecuteCall(p.cmd, args, r)>>]
        ELSE [status |->
                 CASE p.err = "NotFound" ->
                          Status(<<"Command not found!">>, "ERROR")
                   [] p.err = "InvalidSyntax" ->
                          Status(<<"Invalid syntax!">>, "ERROR")
                   [] p.err = "ExecutionError" ->
                          Status(<<"Error while executing the command: Unknown error">>,
                                 "ERROR"),
              sent |-> <<>>,
              calls |-> <<ParseCall(p)>>]

CommandEsc ==
    /\ mode = "CommandMode"
    /\ Handled("Esc")
    /\ calls' = <<>>
    /\ mode' = "NormalMode"
    /\ UNCHANGED <<command_buffer, status, receiver, show_dialog,
                   dialog_title, dialog_content, working_path, file_list,
                   items_items, items_state, file_view, should_close>>

\* an Enter that frees the buffer only when a command was found
CommandEnter_keeps_unknown_line ==
    /\ mode = "CommandMode"
    /\ command_buffer \in script \cup {<<>>}
    /\ Handled(Enter)
    /\ IF command_buffer # <<>>
       THEN LET s == submit(commands, command_buffer, closed, status)
            IN  /\ status' = s.status
                /\ receiver' = receiver \o s.sent
                /\ calls' = s.calls
                /\ command_buffer' = IF Len(s.calls) = 2 THEN <<>>
                                     ELSE command_buffer
       ELSE /\ calls' = <<>>
            /\ UNCHANGED <<status, receiver, command_buffer>>
    /\ UNCHANGED <<mode, show_dialog, dialog_title, dialog_content,
                   working_path, file_list, items_items, items_state,
                   file_view, should_close>>

\* an Enter that submits the empty buffer too
CommandEnter_submits_empty ==
    /\ mode = "CommandMode"
    /\ command_buffer \in script \cup {<<>>}
    /\ Handled(Enter)
    /\ LET s == submit(commands, command_buffer, closed, status)
       IN  /\ status' = s.status
           /\ receiver' = receiver \o s.sent
           /\ calls' = s.calls
           /\ command_buffer' = <<>>
    /\ UNCHANGED <<mode, show_dialog, dialog_title, dialog_content,
                   working_path, file_list, items_items, items_state,
                   file_view, should_close>>

\* Key::Char('\n'), lines 627-695; the user submits a line of the script, or
\* presses Enter on an empty buffer
CommandEnter ==
    /\ mode = "CommandMode"
    /\ command_buffer \in script \cup {<<>>}
    /\ Handled(Enter)
    /\ IF command_buffer # <<>>
       THEN LET s == submit(commands, command_buffer, closed, status)
            IN  /\ status' = s.status
                /\ receiver' = receiver \o s.sent
                /\ calls' = s.calls
                /\ command_buffer' = <<>>
       ELSE /\ calls' = <<>>
            /\ UNCHANGED <<status, receiver, command_buffer>>
    /\ UNCHANGED <<mode, show_dialog, dialog_title, dialog_content,
                   working_path, file_list, items_items, items_state,
                   file_view, should_close>>

\* Key::Char(c): c is pushed; the user types towards one of Lines
CommandChar ==
    /\ mode = "CommandMode"
    /\ \E c \in Chars(script) :
          /\ Append(command_buffer, c) \in Prefixes(script)
          /\ Handled(c)
          /\ command_buffer' = Append(command_buffer, c)
    /\ calls' = <<>>
    /\ UNCHANGED <<mode, status, receiver, show_dialog, dialog_title,
                   dialog_content, working_path, file_list, items_items,
                   items_state, file_view, should_close>>

\* Key::Backspace: String::pop
CommandBackspace ==
    /\ mode = "CommandMode"
    /\ Handled("Backspace")
    /\ calls' = <<>>
    /\ command_buffer' = IF command_buffer = <<>> THEN <<>>
                         ELSE SubSeq(command_buffer, 1, Len(command_buffer) - 1)
    /\ UNCHANGED <<mode, status, receiver, show_dialog, dialog_title,
                   dialog_content, working_path, file_list, items_items,
                   items_state, file_view, should_close>>

CommandOther ==
    /\ mode = "CommandMode"
    /\ \E key \in CommandOtherKeys : Handled(key)
    /\ calls' = <<>>
    /\ UNCHANGED <<mode, command_buffer, status, receiver, show_dialog,
                   dialog_title, dialog_content, working_path, file_list,
                   items_items, items_state, file_view, should_close>>

(***************************************************************************)
(* render: app.receiver.try_recv(), lines 709-742                          *)
(***************************************************************************)
Drain(type) ==
    /\ pc = "drain"
    /\ receiver # <<>>
    /\ Head(receiver).type = type
    /\ pc' = "draw"
    /\ receiver' = Tail(receiver)
    /\ drained' = Some(Head(receiver))
    /\ input' = None /\ calls' = <<>>
    /\ UNCHANGED <<command_buffer, commands, closed, file_view, items_state,
                   script>>
    /\ before' = None

DrainClose ==
    /\ Drain("Close")
    /\ should_close' = close
    /\ UNCHANGED <<mode, status, show_dialog, dialog_title, dialog_content,
                   working_path, file_list, items_items, opened_from>>

\* a ShowDialog drain that leaves the mode as it is
DrainShowDialog_keeps_mode ==
    /\ Drain("ShowDialog")
    /\ show_dialog' = TRUE
    /\ dialog_content' = Head(receiver).b
    /\ dialog_title' = Head(receiver).a
    /\ opened_from' = Some(mode)
    /\ UNCHANGED <<mode, status, working_path, file_list, items_items,
                   should_close>>

DrainShowDialog ==
    /\ Drain("ShowDialog")
    /\ show_dialog' = TRUE
    /\ dialog_content' = Head(receiver).b
    /\ mode' = "NormalMode"
    /\ dialog_title' = Head(receiver).a
    /\ opened_from' = Some(mode)
    /\ UNCHANGED <<status, working_path, file_list, items_items, should_close>>

DrainSetStatus ==
    /\ Drain("SetStatus")
    /\ status' = Status(Head(receiver).a, Head(receiver).level)
    /\ UNCHANGED <<mode, show_dialog, dialog_title, dialog_content,
                   working_path, file_list, items_items, should_close,
                   opened_from>>

\* a drain that keeps the tree when the workspace path does not change
DrainSetWorkspace_keeps_same_path ==
    /\ Drain("SetWorkspace")
    /\ working_path' = Some(Head(receiver).a)
    /\ LET r == load_explorer(working_path')
       IN  IF r.ok
           THEN /\ file_list' = IF working_path' = working_path
                                THEN file_list ELSE r.v
                /\ items_items' = IF working_path' = working_path
                                  THEN items_items ELSE age(items_items)
                /\ status' = status
           ELSE /\ status' = Status(<<"Error while loading the explorer">>, "ERROR")
                /\ UNCHANGED <<file_list, items_items>>
    /\ UNCHANGED <<mode, show_dialog, dialog_title, dialog_content,
                   should_close, opened_from>>

DrainSetWorkspace ==
    /\ Drain("SetWorkspace")
    /\ working_path' = Some(Head(receiver).a)
    /\ LET r == load_explorer(working_path')
       IN  IF r.ok
           THEN /\ file_list' = r.v
                /\ items_items' = age(items_items)
                /\ status' = status
           ELSE /\ status' = Status(<<"Error while loading the explorer">>, "ERROR")
                /\ UNCHANGED <<file_list, items_items>>
    /\ UNCHANGED <<mode, show_dialog, dialog_title, dialog_content,
                   should_close, opened_from>>

\* a receive that waits for an event when none is pending
DrainErr_blocks ==
    /\ pc = "drain"
    /\ receiver = <<>>
    /\ FALSE
    /\ UNCHANGED vars

\* Err(e): nothing is pending; a closed channel is reported in the status
DrainErr ==
    /\ pc = "drain"
    /\ receiver = <<>>
    /\ pc' = "draw"
    /\ drained' = None
    /\ input' = None /\ calls' = <<>>
    /\ status' = IF closed
                 THEN Status(<<"Error receiving application events: Closed">>, "ERROR")
                 ELSE status
    /\ UNCHANGED <<mode, command_buffer, commands, receiver, closed,
                   show_dialog, dialog_title, dialog_content, working_path,
                   file_list, items_items, items_state, file_view,
                   should_close, opened_from, script, before>>

Next ==
    \/ Exit \/ Draw \/ Tick
    \/ NormalEnter \/ NormalQ \/ NormalF \/ NormalC \/ NormalI \/ NormalEsc
    \/ NormalDown \/ NormalUp \/ NormalSpace \/ NormalOther
    \/ InsertEsc \/ InsertOther
    \/ CommandEsc \/ CommandEnter \/ CommandChar \/ CommandBackspace
    \/ CommandOther
    \/ DrainClose \/ DrainShowDialog \/ DrainSetStatus \/ DrainSetWorkspace
    \/ DrainErr

Spec == Init /\ [][Next]_vars

SpecTree == InitTree /\ [][Next]_vars

(***************************************************************************)
(* A closed channel.  Every clone of the Sender can close the channel;     *)
(* after that tx.send fails and try_recv reports Closed once it is empty.  *)
(***************************************************************************)
FaultLines ==
    { <<"q">>, <<"x">>, open_name, line(open_name, path_b),
      line(<<"h">>, <<"o">>), line(<<"h">>, open_name) }

InitClosed == InitWith(FaultLines, {None})

CloseChannel ==
    /\ pc \in {"draw", "input", "drain"}
    /\ ~closed
    /\ closed' = TRUE
    /\ UNCHANGED <<pc, mode, command_buffer, commands, status, receiver,
                   show_dialog, dialog_title, dialog_content, working_path,
                   file_list, items_items, items_state, file_view,
                   should_close, input, calls, drained, opened_from, script, before>>

NextClosed == Next \/ CloseChannel

SpecClosed == InitClosed /\ [][NextClosed]_vars

(***************************************************************************)
(* The help command followed on the names it knows and on others           *)
(***************************************************************************)
HelpLines ==
    { <<"h">>, line(<<"h">>, quit_name), line(<<"h">>, open_name),
      line(<<"h">>, help_name), line(help_name, open_name),
      line(<<"h">>, <<"o">>), line(<<"h">>, <<"x">>),
      <<"q">>, line(<<"o">>, path_b) }

InitHelp == InitWith(HelpLines, {None})

SpecHelp == InitHelp /\ [][Next]_vars

(***************************************************************************)
(* Lines typed with a space before the command or two between the tokens   *)
(***************************************************************************)
SpaceLines ==
    { <<"q">>, line(<<"h">>, <<"o">>), line(<<"h">>, open_name),
      line(<<"o">>, path_b),
      <<Space>> \o line(<<"o">>, path_b),
      line(<<"o">>, <<Space>> \o path_b),
      line(<<"h">>, <<Space>> \o <<"o">>) }

InitSpaces == InitWith(SpaceLines, {None})

SpecSpaces == InitSpaces /\ [][Next]_vars

(***************************************************************************)
(* CommandParser::parse on registries other than the built-in one:         *)
(* add_command accepts any command, also one whose name or alias is taken  *)
(***************************************************************************)
\* commands that clash with the built-in ones
ShadowQuit ==
    [kind |-> "open", name |-> <<"q">>, aliases |-> << quit_name >>,
     description |-> <<"shadow">>, commands |-> NoHelp]
ShadowOpen ==
    [kind |-> "quit", name |-> open_name, aliases |-> << <<"o">>, <<"h">> >>,
     description |-> <<"shadow">>, commands |-> NoHelp]

CommandPool ==
    {QuitCommand, OpenCommand, HelpCommand_new(<<QuitCommand, OpenCommand>>),
     ShadowQuit, ShadowOpen}

\* the longest registry tried
MaxCommands == 3

Registries ==
    UNION {[1..n -> CommandPool] : n \in 1..MaxCommands} \cup {setup_commands}

ParseBuffers ==
    { <<"q">>, quit_name, <<"o">>, open_name, <<"h">>, help_name, <<"x">>,
      line(<<"o">>, path_a), line(open_name, path_a), <<Space, "q">> }

InitParse ==
    /\ AppInit(ParseBuffers, {None})
    /\ pc = "parse"
    /\ commands \in Registries

\* one call of parse, on a registry built with add_command
ParseStep ==
    /\ pc = "parse"
    /\ \E buffer \in script :
          /\ command_buffer' = buffer
          /\ calls' = <<ParseCall(parse(commands, buffer))>>
    /\ UNCHANGED <<pc, mode, commands, status, receiver, closed, show_dialog,
                   dialog_title, dialog_content, working_path, file_list,
                   items_items, items_state, file_view, should_close, input,
                   drained, opened_from, script, before>>

SpecParse == InitParse /\ [][ParseStep]_vars

(***************************************************************************)
(* Properties                                                              *)
(***************************************************************************)
\* what the handler that just ran was given (input is Some exactly between
\* the end of a key handler and the end of the drain that follows it)
KeyOf(i) == IF IsSome(i) THEN Unwrap(i).key ELSE "None"
ModeMet(i) == IF IsSome(i) THEN Unwrap(i).mode ELSE "None"
DialogMet(i) == IsSome(i) /\ Unwrap(i).dialog
BufferMet(i) == IF IsSome(i) THEN Unwrap(i).buffer ELSE <<>>

\* Enter was just handled in CommandMode on a non-empty buffer
Submitted ==
    /\ KeyOf(input) = Enter
    /\ ModeMet(input) = "CommandMode"
    /\ BufferMet(input) # <<>>

FirstToken(buffer) == split(buffer, Space)[1]
ParseCalls == {i \in 1..Len(calls) : calls[i].fn = "parse"}
ExecuteCalls == {i \in 1..Len(calls) : calls[i].fn = "execute"}

\* C1: when Enter is handled in Command mode on a non-empty buffer, the
\* buffer is given to parse once, the command found (if any) is executed
\* exactly once, and the buffer is empty when the handler ends, whatever the
\* outcome
C1_SubmitOnceAndClear ==
    Submitted =>
        /\ command_buffer = <<>>
        /\ Cardinality(ParseCalls) = 1
        /\ calls[1].fn = "parse"
        /\ IF \E i \in 1..Len(commands) :
                 cmd_matches(commands[i], FirstToken(BufferMet(input)))
           THEN /\ calls[1].result = "Ok"
                /\ Cardinality(ExecuteCalls) = 1
                /\ calls[2].fn = "execute"
                /\ calls[2].cmd = calls[1].cmd
                /\ calls[2].args = remove0(split(BufferMet(input), Space))
           ELSE /\ calls[1].result = "NotFound"
                /\ ExecuteCalls = {}

\* a submit that ended in InvalidSyntax, with the buffer cleared
C1_Witness ==
    /\ Submitted
    /\ Len(calls) = 2
    /\ calls[2].result = "InvalidSyntax"
    /\ command_buffer = <<>>

Tokens == {path_a, path_b, path_z, path_n}

\* the paths of the entries of directory P
EntriesOf(P) == {join(P, fs(P).entries[i]) : i \in 1..Len(fs(P).entries)}

\* the paths the rows of a flatten of these nodes stand for
RowPaths(nodes) == {flatten(nodes)[i].uuid[2] : i \in 1..Len(flatten(nodes))}

\* C2: submitting "open P" publishes exactly one SetWorkspace(P), and the
\* drain of the same iteration sets the working path to P and rebuilds the
\* tree from P: the next flatten shows entries of P (or, P having none to
\* show, at most the placeholder), none of the previous workspace
C2_OpenRebuildsTree ==
    [][\A P \in Tokens :
          (pc = "drain" /\ Submitted /\ BufferMet(input) = line(open_name, P)) =>
              /\ receiver = <<SetWorkspace(P)>>
              /\ working_path' = Some(P)
              /\ RowPaths(file_list') \subseteq
                     EntriesOf(P) \cup {Empty_workspace.value}]_vars

\* C3: while the dialog flag is set, a key other than Enter leaves the mode,
\* the command buffer, the cursor, the tree, the explorer flag and the
\* should-close flag unchanged; Enter clears the dialog flag and changes
\* nothing else
C3_DialogSuppressesKeys ==
    [][(pc = "input" /\ show_dialog /\ KeyOf(input') # "Tick") =>
          IF KeyOf(input') = Enter
          THEN /\ show_dialog' = FALSE
               /\ UNCHANGED <<mode, command_buffer, commands, status, receiver,
                              closed, dialog_title, dialog_content,
                              working_path, file_list, items_items,
                              items_state, file_view, should_close>>
          ELSE UNCHANGED <<mode, command_buffer, items_state, file_list,
                           file_view, should_close>>]_vars

\* the activate key was handled under a dialog with a directory row selected
C3_Witness ==
    /\ KeyOf(input) = Space
    /\ DialogMet(input)
    /\ show_dialog
    /\ IsSome(items_state)
    /\ Unwrap(items_state) < Len(items_items)
    /\ \E i \in 1..Len(file_list) :
          /\ file_list[i].uuid = items_items[Unwrap(items_state) + 1].uuid
          /\ IsSome(file_list[i].expanded)

NoCommandMatches(buffer) ==
    \A i \in 1..Len(commands) : ~cmd_matches(commands[i], FirstToken(buffer))

\* C5: a submitted buffer whose first token is no registered name and no
\* alias yields NotFound: the status is the error "Command not found!", no
\* event is published and the mode is still Command; the mode then leaves
\* Command only when Escape is handled (or a later command opens a dialog)
C5_NotFound ==
    [][/\ (/\ pc = "input" /\ mode = "CommandMode" /\ KeyOf(input') = Enter
           /\ command_buffer # <<>> /\ NoCommandMatches(command_buffer)) =>
              /\ status' = Status(<<"Command not found!">>, "ERROR")
              /\ calls' = <<ParseCall(NotFound)>>
              /\ receiver' = <<>>
              /\ mode' = "CommandMode"
       /\ (mode = "CommandMode" /\ mode' # "CommandMode") =>
              \/ pc = "input" /\ KeyOf(input') = "Esc"
              \/ /\ pc = "drain" /\ IsSome(drained')
                 /\ Unwrap(drained').type = "ShowDialog"
                 /\ calls # <<>>
                 /\ calls[1].result = "Ok"]_vars

\* "x" was just submitted
C5_Witness ==
    /\ Submitted
    /\ BufferMet(input) = <<"x">>
    /\ calls = <<ParseCall(NotFound)>>
    /\ status = Status(<<"Command not found!">>, "ERROR")
    /\ mode = "CommandMode"
    /\ receiver = <<>>

\* C6: every error of a submitted line, from parse (NotFound) or from
\* execute (InvalidSyntax, ExecutionError), leaves the status at error level
\* with a message when the handler ends, and should_close is not set by it
C6_ErrorsReachStatus ==
    (Submitted /\ \E i \in 1..Len(calls) : calls[i].result # "Ok") =>
        /\ status.level = "ERROR"
        /\ status.text # <<>>
        /\ ~should_close

\* C7: should_close turns true only when 'q' is handled in Normal mode with
\* no dialog open, or when a Close event is drained; 'q' under a dialog, in
\* Insert mode or in Command mode leaves it as it was
C7_CloseOnlyByQOrEvent ==
    [][/\ (~should_close /\ should_close') =>
              \/ /\ pc = "input" /\ mode = "NormalMode" /\ ~show_dialog
                 /\ KeyOf(input') = "q"
              \/ /\ pc = "drain" /\ receiver # <<>>
                 /\ Head(receiver) = Close_event
                 /\ drained' = Some(Close_event)
       /\ (/\ pc = "input" /\ KeyOf(input') = "q"
           /\ (show_dialog \/ mode # "NormalMode")) =>
              should_close' = should_close]_vars

\* 'q' was handled under a dialog and the application stays open
C7_Witness ==
    /\ KeyOf(input) = "q"
    /\ DialogMet(input)
    /\ ModeMet(input) = "NormalMode"
    /\ ~should_close

\* C8: after "quit" or "q" is submitted exactly one Close event is queued;
\* the drain of that iteration takes it and sets should_close, which is
\* never reset; the next loop head ends the loop, and nothing runs after
C8_QuitClosesLoop ==
    [][/\ (/\ pc = "input" /\ mode = "CommandMode" /\ KeyOf(input') = Enter
           /\ command_buffer \in {quit_name, <<"q">>}) =>
              /\ receiver' = <<Close_event>>
              /\ pc' = "drain"
       /\ (pc = "drain" /\ receiver # <<>> /\ Head(receiver) = Close_event) =>
              /\ should_close'
              /\ receiver' = <<>>
              /\ drained' = Some(Close_event)
              /\ pc' = "draw"
       /\ should_close => should_close'
       /\ (pc = "draw" /\ should_close) =>
              /\ pc' = "done"
              /\ UNCHANGED app_vars
       /\ pc # "done"]_vars

\* the Close event of a quit was drained and the loop is about to end
C8_Witness ==
    /\ pc = "draw"
    /\ drained = Some(Close_event)
    /\ should_close
    /\ receiver = <<>>
    /\ mode = "CommandMode"

Matching(buffer) ==
    {i \in 1..Len(commands) : cmd_matches(commands[i], FirstToken(buffer))}

\* C9: in the built-in registry the alias and the name of each command parse
\* to that same command (q/quit, o/open, h/help); in any registry the
\* command returned is the first registered one that matches the token
C9_AliasAndFirstMatch ==
    /\ (pc = "parse" /\ calls # <<>>) =>
          IF Matching(command_buffer) = {}
          THEN calls[1].result = "NotFound"
          ELSE /\ calls[1].result = "Ok"
               /\ calls[1].cmd \in Matching(command_buffer)
               /\ \A j \in Matching(command_buffer) : calls[1].cmd <= j
    /\ (pc = "parse" /\ calls # <<>> /\ commands = setup_commands) =>
          /\ command_buffer \in {<<"q">>, quit_name} =>
                commands[calls[1].cmd].kind = "quit"
          /\ command_buffer \in {<<"o">>, open_name} =>
                commands[calls[1].cmd].kind = "open"
          /\ command_buffer \in {<<"h">>, help_name} =>
                commands[calls[1].cmd].kind = "help"

\* parse was given a token that two registered commands match
C9_Witness ==
    /\ pc = "parse"
    /\ calls # <<>>
    /\ Cardinality(Matching(command_buffer)) >= 2
    /\ calls[1].cmd = 1
    /\ commands[1] # commands[2]

\* C10: open executed with no argument or with two or more arguments gives
\* InvalidSyntax and publishes nothing; with exactly one argument it
\* publishes SetWorkspace of that argument
C10_OpenExactlyOneArgument ==
    \A i \in ExecuteCalls :
        commands[calls[i].cmd].kind = "open" =>
            IF Len(calls[i].args) = 1
            THEN /\ calls[i].result = "Ok"
                 /\ calls[i].sent = <<SetWorkspace(calls[i].args[1])>>
            ELSE /\ calls[i].result = "InvalidSyntax"
                 /\ calls[i].sent = <<>>

KnownNames == {quit_name, open_name, help_name}

\* what get_description of the command of that name returns
DescriptionOf(N) ==
    CASE N = quit_name -> quit_description
      [] N = open_name -> open_description
      [] N = help_name -> help_description

HelpTitle(N) == <<"Help for ">> \o N \o <<" command">>

HelpOf(N) == {line(<<"h">>, N), line(help_name, N)}

\* C11: help with an argument N that names a known command (quit, open or
\* help) publishes exactly one ShowDialog whose title is "Help for N command"
\* and whose body is the description of N; the drain of it sets the dialog
\* flag with that title and that body
C11_HelpShowsDialog ==
    [][\A N \in KnownNames :
          /\ (/\ pc = "input" /\ mode = "CommandMode" /\ KeyOf(input') = Enter
              /\ command_buffer \in HelpOf(N)) =>
                 /\ Len(calls') = 2
                 /\ calls'[2].result = "Ok"
                 /\ calls'[2].sent = <<ShowDialog(HelpTitle(N), DescriptionOf(N))>>
                 /\ receiver' = <<ShowDialog(HelpTitle(N), DescriptionOf(N))>>
          /\ (pc = "drain" /\ Submitted /\ BufferMet(input) \in HelpOf(N)) =>
                 /\ drained' = Some(ShowDialog(HelpTitle(N), DescriptionOf(N)))
                 /\ receiver' = <<>>
                 /\ show_dialog'
                 /\ dialog_title' = HelpTitle(N)
                 /\ dialog_content' = DescriptionOf(N)]_vars

\* the dialog of "h help" is open
C11_Witness ==
    /\ IsSome(drained)
    /\ Unwrap(drained).type = "ShowDialog"
    /\ show_dialog
    /\ dialog_title = HelpTitle(help_name)
    /\ dialog_content = help_description

UnknownNames == {<<"o">>, <<"x">>}

DoesNotExist(X) == Status(X \o <<" command doesn't exist">>, "ERROR")

\* C12: help with an argument that names no known command publishes exactly
\* one SetStatus carrying an error-level message and returns Ok; the drain
\* of it sets that status, opens no dialog and leaves the mode as it was
C12_HelpUnknownSetsStatus ==
    [][\A X \in UnknownNames :
          /\ (/\ pc = "input" /\ mode = "CommandMode" /\ KeyOf(input') = Enter
              /\ command_buffer \in HelpOf(X)) =>
                 /\ Len(calls') = 2
                 /\ calls'[2].result = "Ok"
                 /\ receiver' = <<SetStatus(DoesNotExist(X))>>
                 /\ UNCHANGED <<mode, show_dialog, status>>
          /\ (pc = "drain" /\ Submitted /\ BufferMet(input) \in HelpOf(X)) =>
                 /\ drained' = Some(SetStatus(DoesNotExist(X)))
                 /\ receiver' = <<>>
                 /\ status' = DoesNotExist(X)
                 /\ status'.level = "ERROR"
                 /\ UNCHANGED <<mode, show_dialog, dialog_title, dialog_content>>
                 /\ mode' = "CommandMode"
                 /\ ~show_dialog']_vars

\* the status of "h x" was set and Command mode goes on
C12_Witness ==
    /\ IsSome(drained)
    /\ Unwrap(drained) = SetStatus(DoesNotExist(<<"x">>))
    /\ status = DoesNotExist(<<"x">>)
    /\ mode = "CommandMode"
    /\ ~show_dialog

\* C13: the command buffer is empty right after every Normal-to-Command
\* transition on 'c' and right after every Command-to-Normal transition on
\* Escape, so a line typed and abandoned is not there when Command mode is
\* entered again
C13_BufferClearedOnTransitions ==
    [][/\ (/\ pc = "input" /\ mode = "NormalMode" /\ KeyOf(input') = "c"
           /\ mode' = "CommandMode") => command_buffer' = <<>>
       /\ (/\ pc = "input" /\ mode = "CommandMode" /\ KeyOf(input') = "Esc"
           /\ mode' = "NormalMode") => command_buffer' = <<>>]_vars

\* C14: a second activation of the same directory node right after the
\* first, nothing else having touched the tree, restores the node's expanded
\* value: the tree, and with it the rows flatten gives, are what they were
\* before the first activation
C14_DoubleActivationRestores ==
    [][(/\ pc = "input" /\ IsSome(before) /\ KeyOf(input') = Space
        /\ pc' = "drain") =>
           /\ file_list' = Unwrap(before)
           /\ flatten(file_list') = flatten(Unwrap(before))]_vars

\* an activation has just collapsed a directory that the activation before
\* it had expanded
C14_Witness ==
    /\ KeyOf(input) = Space
    /\ IsSome(before)
    /\ \E i \in 1..Len(file_list) :
          /\ file_list[i].expanded = Some(FALSE)
          /\ Unwrap(before)[i].expanded = Some(TRUE)
          /\ Unwrap(before)[i].uuid = file_list[i].uuid

\* the tree with every expanded flag blanked: what an activation must keep
RECURSIVE Shape(_)
Shape(nodes) ==
    [i \in 1..Len(nodes) |->
        [nodes[i] EXCEPT !.expanded = None,
                         !.children = IF IsSome(nodes[i].children)
                                      THEN Some(Shape(Unwrap(nodes[i].children)))
                                      ELSE None]]

\* the <<uuid, expanded>> pairs of all the nodes of the tree
RECURSIVE Flags(_)
Flags(nodes) ==
    UNION {{<<nodes[i].uuid, nodes[i].expanded>>} \cup
           (IF IsSome(nodes[i].children) THEN Flags(Unwrap(nodes[i].children))
            ELSE {}) : i \in 1..Len(nodes)}

Flip(expanded) == IF IsSome(expanded) THEN Some(~Unwrap(expanded)) ELSE None

\* C15: an activation with no row selected, or on a row (the selected index
\* being one of the rows) whose id is not in the tree or that is the row of a
\* leaf, changes no node and raises no error; on the row of a directory it
\* flips the expanded flag of that node and changes nothing else in the tree
C15_ToggleFrame ==
    [][(/\ pc = "input" /\ mode = "NormalMode" /\ ~show_dialog
        /\ KeyOf(input') = Space
        /\ IsSome(items_state) => Unwrap(items_state) < Len(items_items)) =>
           /\ pc' = "drain"
           /\ Shape(file_list') = Shape(file_list)
           /\ IF IsSome(items_state)
              THEN LET u == items_items[Unwrap(items_state) + 1].uuid
                       hit == {f \in Flags(file_list) : f[1] = u}
                   IN  Flags(file_list') =
                           (Flags(file_list) \ hit) \cup
                               {<<f[1], Flip(f[2])>> : f \in hit}
              ELSE file_list' = file_list]_vars

\* an activation met a row whose id is not in the tree, and did nothing
C15_Witness ==
    /\ KeyOf(input) = Space
    /\ ~DialogMet(input)
    /\ pc = "drain"
    /\ IsSome(items_state)
    /\ Unwrap(items_state) < Len(items_items)
    /\ \A f \in Flags(file_list) : f[1] # items_items[Unwrap(items_state) + 1].uuid
    /\ \E f \in Flags(file_list) : IsSome(f[2])

\* the positions of the nodes of a tree: <<i>> is root i, p \o <<j>> is
\* child j of the node at p
RECURSIVE Paths(_)
Paths(nodes) ==
    UNION {{<<i>>} \cup
           (IF IsSome(nodes[i].children)
            THEN {<<i>> \o q : q \in Paths(Unwrap(nodes[i].children))}
            ELSE {}) : i \in 1..Len(nodes)}

RECURSIVE NodeAt(_, _)
NodeAt(nodes, p) ==
    IF Len(p) = 1 THEN nodes[p[1]]
    ELSE NodeAt(Unwrap(nodes[p[1]].children), Tail(p))

\* visible: a root, or a node all of whose proper ancestors are expanded
VisiblePaths(nodes) ==
    {p \in Paths(nodes) :
        \A n \in 1..(Len(p) - 1) :
            NodeAt(nodes, SubSeq(p, 1, n)).expanded = Some(TRUE)}

\* depth-first pre-order: an ancestor before its descendants, an earlier
\* sibling's subtree before a later sibling's
RECURSIVE PreOrderBefore(_, _)
PreOrderBefore(p, q) ==
    IF p = <<>> THEN q # <<>>
    ELSE IF q = <<>> THEN FALSE
    ELSE IF p[1] # q[1] THEN p[1] < q[1]
    ELSE PreOrderBefore(Tail(p), Tail(q))

RowOf(nodes, p) ==
    Cardinality({q \in VisiblePaths(nodes) : PreOrderBefore(q, p)}) + 1

\* C16: flatten yields exactly one row per visible node (a root, or a node
\* all of whose proper ancestors are expanded), in depth-first pre-order,
\* each row carrying the id of its node and no children; nodes under a
\* collapsed directory give no row; the rows the redraw leaves are these
C16_FlattenVisiblePreOrder ==
    LET rows == flatten(file_list)
        V == VisiblePaths(file_list)
    IN  /\ Len(rows) = Cardinality(V)
        /\ \A p \in V :
              /\ rows[RowOf(file_list, p)].uuid = NodeAt(file_list, p).uuid
              /\ rows[RowOf(file_list, p)].children = None
        /\ (pc = "input" /\ file_view) => items_items = rows

\* drawn with a directory expanded: its children are rows between it and
\* the root after it
C16_Witness ==
    /\ pc = "input"
    /\ file_view
    /\ \E p, q \in VisiblePaths(file_list) :
          /\ Len(p) = 2
          /\ Len(q) = 1
          /\ PreOrderBefore(p, q)
    /\ Len(items_items) = Cardinality(Paths(file_list))

\* the sibling lists of a tree: the roots, and the children of every directory
RECURSIVE SiblingLists(_)
SiblingLists(nodes) ==
    {nodes} \cup
    UNION {IF IsSome(nodes[i].children)
           THEN SiblingLists(Unwrap(nodes[i].children))
           ELSE {} : i \in 1..Len(nodes)}

\* C17: after a build, among the siblings at any depth (the roots and the
\* children of every directory) a Directory precedes every File and an Info
\* node follows every node that is not Info
C17_DirectoriesFirstInfoLast ==
    \A s \in SiblingLists(file_list) :
        \A i, j \in 1..Len(s) :
            i < j =>
                /\ ~(s[i].node_type = "File" /\ s[j].node_type = "Directory")
                /\ ~(s[i].node_type = "Info" /\ s[j].node_type # "Info")

\* C18: after a build, siblings of the same kind are in ascending
\* lexicographic order of display_name
C18_AscendingNames ==
    \A s \in SiblingLists(file_list) :
        \A i, j \in 1..Len(s) :
            (i < j /\ s[i].node_type = s[j].node_type) =>
                str_cmp(s[i].display_name, s[j].display_name) # "Greater"

\* a navigation key is about to reach the list: Normal mode, no dialog, the
\* explorer shown
Navigates(key) ==
    /\ pc = "input" /\ mode = "NormalMode" /\ ~show_dialog /\ file_view
    /\ KeyOf(input') = key

\* the cursor after k calls of next on a list of n > 0 items
RECURSIVE NextTimes(_, _, _)
NextTimes(selected, n, k) ==
    IF k = 0 THEN selected
    ELSE NextTimes((CHOOSE o \in next(selected, n) : TRUE).selected, n, k - 1)

\* what C19 says next and previous select on a list of n > 0 items
NextAsStated(s, n) ==
    IF ~IsSome(s) THEN {Some(0)}
    ELSE IF Unwrap(s) < n - 1 THEN {Some(Unwrap(s) + 1)}
    ELSE IF Unwrap(s) = n - 1 THEN {Some(0)}
    ELSE {Some(i) : i \in 0..(n - 1)}

PreviousAsStated(s, n) ==
    IF ~IsSome(s) THEN Some(0)
    ELSE IF Unwrap(s) = 0 THEN Some(n - 1)
    ELSE Some(Unwrap(s) - 1)

\* C19 as stated: on a list of n > 0 items next selects 0 from no selection,
\* i + 1 from i < n - 1 and 0 from n - 1; previous selects 0 from no
\* selection, n - 1 from 0 and i - 1 otherwise; n calls of next from 0 come
\* back to 0; and the cursor is always Some(i) with i < n afterwards
C19_SelectionWraps ==
    [][\A key \in {"Down", "Up"} :
          (Navigates(key) /\ Len(items_items) > 0) =>
              LET n == Len(items_items)
              IN  /\ pc' = "drain"
                  /\ key = "Down" => items_state' \in NextAsStated(items_state, n)
                  /\ key = "Up" => items_state' = PreviousAsStated(items_state, n)
                  /\ NextTimes(Some(0), n, n) = Some(0)
                  /\ IsSome(items_state')
                  /\ Unwrap(items_state') < n]_vars

\* C19 amended: next and previous select what is stated, and n calls of next
\* from 0 come back to 0; the cursor afterwards is Some(i) with i < n when
\* the cursor before was none or at most n, while previous on a stale
\* cursor i > n (the rows were replaced by fewer) selects i - 1 >= n
C19_SelectionWrapsInRange ==
    [][\A key \in {"Down", "Up"} :
          (Navigates(key) /\ Len(items_items) > 0) =>
              LET n == Len(items_items)
              IN  /\ pc' = "drain"
                  /\ key = "Down" =>
                         /\ items_state' \in NextAsStated(items_state, n)
                         /\ (IsSome(items_state) /\ Unwrap(items_state) > n - 1) =>
                                items_state' = Some(0)
                  /\ key = "Up" => items_state' = PreviousAsStated(items_state, n)
                  /\ NextTimes(Some(0), n, n) = Some(0)
                  /\ IsSome(items_state')
                  /\ Unwrap(items_state') < n <=>
                         (key = "Up" /\ IsSome(items_state) =>
                              Unwrap(items_state) <= n)]_vars

\* previous has just met a cursor past the rows and left it past them
C19_Witness ==
    /\ KeyOf(input) = "Up"
    /\ ~DialogMet(input)
    /\ file_view
    /\ pc = "drain"
    /\ Len(items_items) >= 3
    /\ IsSome(items_state)
    /\ Unwrap(items_state) >= Len(items_items)

\* C20: on an empty list next and previous leave the cursor unselected and
\* end without taking len - 1 of a zero length (no underflow, no panic),
\* whatever the cursor was
C20_EmptyListNoOp ==
    [][\A key \in {"Down", "Up"} :
          (Navigates(key) /\ Len(items_items) = 0) =>
              /\ pc' = "drain"
              /\ items_state' = None]_vars

\* C21: with no workspace path set the tree is exactly one root, of kind
\* Info, named "Empty workspace", with no children and expanded = None;
\* flatten yields exactly one row; activating that row changes nothing
C21_EmptyWorkspacePlaceholder ==
    [][working_path = None =>
          /\ Len(file_list) = 1
          /\ file_list[1].node_type = "Info"
          /\ file_list[1].display_name = <<"Empty workspace">>
          /\ file_list[1].children = None
          /\ file_list[1].expanded = None
          /\ Len(flatten(file_list)) = 1
          /\ flatten(file_list)[1].uuid = file_list[1].uuid
          /\ (/\ pc = "input" /\ mode = "NormalMode" /\ ~show_dialog
              /\ KeyOf(input') = Space) =>
                 /\ pc' = "drain"
                 /\ file_list' = file_list
                 /\ (file_view => flatten(file_list') = items_items)]_vars

\* the row of the placeholder was selected and activated
C21_Witness ==
    /\ working_path = None
    /\ KeyOf(input) = Space
    /\ ~DialogMet(input)
    /\ pc = "drain"
    /\ items_state = Some(0)
    /\ Len(items_items) = 1
    /\ items_items[1].uuid = file_list[1].uuid

\* the listing of the root of workspace P is refused
RootListingFails(P) == fs(P).exists /\ fs(P).is_dir /\ ~fs(P).readable

\* C22: when a reload fails at the top level (the root of the workspace
\* cannot be listed) the tree afterwards is the single Info placeholder and
\* the status is an error-level message; the tree of the workspace loaded
\* before is not left in place
C22_FailedReloadShowsPlaceholder ==
    [][(/\ pc = "drain" /\ receiver # <<>>
        /\ Head(receiver).type = "SetWorkspace"
        /\ RootListingFails(Head(receiver).a)) =>
           /\ Len(file_list') = 1
           /\ file_list'[1].node_type = "Info"
           /\ file_list'[1].display_name = <<"Empty workspace">>
           /\ status'.level = "ERROR"
           /\ status'.text # <<>>]_vars

\* the entries of directory dir whose own probing does not fail
Survivors(dir) ==
    {p \in EntriesOf(dir) : ~(fs(p).exists /\ fs(p).is_dir /\ ~fs(p).readable)}

\* the nodes stand for exactly the surviving entries of dir, one each, and so
\* on below every directory among them
RECURSIVE BuiltFrom(_, _)
BuiltFrom(nodes, dir) ==
    /\ {nodes[i].value : i \in 1..Len(nodes)} = Survivors(dir)
    /\ Len(nodes) = Cardinality(Survivors(dir))
    /\ \A i \in 1..Len(nodes) :
          IF fs(nodes[i].value).is_dir
          THEN /\ IsSome(nodes[i].children)
               /\ BuiltFrom(Unwrap(nodes[i].children), nodes[i].value)
          ELSE nodes[i].children = None

\* C23: in a build, an entry at any depth whose probing fails (a directory
\* whose listing is refused) is left out of its parent's children and every
\* other entry of the workspace is built; the build does not fail and no
\* sibling is dropped
C23_FailedEntriesSkipped ==
    [][(/\ pc = "drain" /\ receiver # <<>>
        /\ Head(receiver).type = "SetWorkspace"
        /\ fs(Head(receiver).a).is_dir
        /\ ~RootListingFails(Head(receiver).a)) =>
           /\ BuiltFrom(file_list', Head(receiver).a)
           /\ status' = status]_vars

\* workspace a was reloaded: of its four entries and the three of a/d, r and
\* a/d/u are refused and left out
C23_Witness ==
    /\ pc = "draw"
    /\ drained = Some(SetWorkspace(path_a))
    /\ Cardinality(EntriesOf(path_a)) = 4
    /\ Len(file_list) = 3
    /\ \E i \in 1..Len(file_list) :
          /\ file_list[i].value = join(path_a, <<"d">>)
          /\ Len(Unwrap(file_list[i].children)) = 2
          /\ Cardinality(EntriesOf(file_list[i].value)) = 3

IsPrefix(s, t) == Len(s) <= Len(t) /\ SubSeq(t, 1, Len(s)) = s

\* one step of the loop as the event bus sees it
DrainStep ==
    /\ (pc' = "drain" /\ pc # "drain") => pc = "input"
    /\ (pc = "drain" /\ pc' # "drain") =>
           /\ pc' = "draw"
           /\ IF receiver = <<>>
              THEN drained' = None /\ receiver' = <<>>
              ELSE drained' = Some(Head(receiver))
                   /\ receiver' = Tail(receiver)
    /\ pc = "input" => IsPrefix(receiver, receiver') /\ drained' = None
    /\ pc = "draw" => receiver' = receiver /\ drained' = None

\* C24: an iteration drains at most one event, after its key or tick was
\* handled; with no event pending the drain ends at once (the loop goes on
\* to the next redraw); events are taken in the order they were published
C24_OneEventPerIteration ==
    /\ []((pc = "drain" /\ receiver = <<>>) => ENABLED DrainErr)
    /\ [][DrainStep]_vars

\* the one event of "h o" was drained and applied, and none is left
C24_Witness ==
    /\ pc = "draw"
    /\ IsSome(drained)
    /\ Unwrap(drained).type = "SetStatus"
    /\ status = Status(Unwrap(drained).a, "ERROR")
    /\ receiver = <<>>

\* C25: the drain of a SetWorkspace whose load succeeds leaves a tree in which
\* every directory node is collapsed, whatever the tree was before, and whose
\* flattening has one row for each root
C25_ReloadCollapsesAll ==
    [][(/\ pc = "drain" /\ receiver # <<>>
        /\ Head(receiver).type = "SetWorkspace"
        /\ load_explorer(Some(Head(receiver).a)).ok) =>
           /\ \A p \in Paths(file_list') :
                  NodeAt(file_list', p).node_type = "Directory" =>
                      NodeAt(file_list', p).expanded = Some(FALSE)
           /\ Len(flatten(file_list')) = Len(file_list')]_vars

\* workspace a was reloaded while one of its directories was expanded: the
\* rows of the earlier tree still show it open, the new tree has it closed
C25_Witness ==
    /\ pc = "draw"
    /\ drained = Some(SetWorkspace(path_a))
    /\ \E i \in 1..Len(items_items) :
          /\ items_items[i].uuid[1] = "stale"
          /\ items_items[i].display_name[1] = "▼ "
    /\ \E j \in 1..Len(file_list) :
          /\ file_list[j].node_type = "Directory"
          /\ file_list[j].expanded = Some(FALSE)
          /\ Unwrap(file_list[j].children) # <<>>
    /\ Len(flatten(file_list)) = Len(file_list)

\* the non-empty tokens of a line, and the line written with one space
\* between them
Words(buffer) == SelectSeq(split(buffer, Space), LAMBDA t : t # <<>>)

RECURSIVE Unwords(_)
Unwords(ws) ==
    IF ws = <<>> THEN <<>>
    ELSE IF Len(ws) = 1 THEN ws[1]
    ELSE line(ws[1], Unwords(Tail(ws)))

SingleSpaced(buffer) == Unwords(Words(buffer))

\* C26: a submitted line has the effect (events published, status) of the
\* line made of its non-empty tokens with single spaces between them
C26_SpacesCollapse ==
    [][(/\ pc = "input" /\ mode = "CommandMode"
        /\ KeyOf(input') = Enter
        /\ command_buffer # <<>>) =>
           LET s == submit(commands, SingleSpaced(command_buffer), closed, status)
           IN  /\ receiver' = receiver \o s.sent
               /\ status' = s.status]_vars

\* C27: whenever the activate key is handled with a row selected, the
\* selected index is below the number of rows
C27_CursorInRange ==
    [][(/\ pc = "input" /\ mode = "NormalMode" /\ ~show_dialog
        /\ KeyOf(input') = Space
        /\ IsSome(items_state)) =>
           /\ Unwrap(items_state) < Len(items_items)
           /\ pc' # "panicked"]_vars

\* C28: while the dialog is shown the mode is Normal
C28_DialogImpliesNormal == show_dialog => mode = "NormalMode"

\* 'c' or 'i' was handled with the dialog open, which is still open
C28_Witness ==
    /\ pc = "drain"
    /\ KeyOf(input) \in {"c", "i"}
    /\ DialogMet(input)
    /\ show_dialog
    /\ mode = "NormalMode"
    /\ opened_from = Some("CommandMode")

\* the events published by the calls of the key being handled
RECURSIVE SentBy(_)
SentBy(cs) == IF cs = <<>> THEN <<>> ELSE cs[1].sent \o SentBy(Tail(cs))

\* C29: at most one event is pending at any time; what is pending when the
\* drain is reached is what the submit of this iteration published, and
\* nothing is pending when the iteration is over
C29_AtMostOnePending ==
    /\ Len(receiver) <= 1
    /\ pc = "drain" => receiver = SentBy(calls)
    /\ pc # "drain" => receiver = <<>>

\* a submitted "o b" has published its one event, which the drain will take
C29_Witness ==
    /\ pc = "drain"
    /\ Submitted
    /\ BufferMet(input) = line(open_name, path_b)
    /\ receiver = <<SetWorkspace(path_b)>>
    /\ Len(calls) = 2

\* the tree changes only when the activate key is handled or a SetWorkspace
\* event is drained, and the rows only in the redraw (a reload outdates them)
TreeChangesAfterRows ==
    /\ file_list' # file_list =>
           \/ pc = "input" /\ KeyOf(input') = Space
           \/ /\ pc = "drain" /\ receiver # <<>>
              /\ Head(receiver).type = "SetWorkspace"
    /\ (pc = "draw" /\ pc' = "input" /\ file_view) =>
           items_items' = flatten(file_list)
    /\ (pc = "draw" /\ pc' = "input") => file_list' = file_list

\* C30: when a key is about to be handled with the explorer shown, the rows
\* the selection indexes are the flattening of the tree as it is then
C30_RowsMatchTree ==
    /\ []((pc = "input" /\ file_view) => items_items = flatten(file_list))
    /\ [][TreeChangesAfterRows]_vars

\* with the explorer shown, the activate key has just opened a directory: the
\* rows it was chosen from are those of the tree before the key
C30_Witness ==
    /\ pc = "drain"
    /\ KeyOf(input) = Space
    /\ file_view
    /\ IsSome(before)
    /\ items_items = flatten(Unwrap(before))
    /\ items_items # flatten(file_list)

C32_EmptyEnterNoOp ==
    [][(/\ pc = "input" /\ mode = "CommandMode"
        /\ KeyOf(input') = Enter
        /\ command_buffer = <<>>) =>
           /\ calls' = <<>>
           /\ receiver' = receiver
           /\ status' = status
           /\ mode' = "CommandMode"
           /\ command_buffer' = <<>>
           /\ pc' = "drain"
           /\ UNCHANGED <<show_dialog, dialog_title, dialog_content,
                          working_path, file_list, items_items, items_state,
                          file_view, should_close>>]_vars

\* Enter was handled on the empty buffer after a line that set an error
\* status: the status is still there and nothing was called or published
C32_Witness ==
    /\ pc = "drain"
    /\ KeyOf(input) = Enter
    /\ ModeMet(input) = "CommandMode"
    /\ BufferMet(input) = <<>>
    /\ command_buffer = <<>>
    /\ mode = "CommandMode"
    /\ status = Status(<<"Command not found!">>, "ERROR")
    /\ calls = <<>>
    /\ receiver = <<>>

====
